---- MODULE Spec2Model ----
(***************************************************************************)
(* The inbox of the bridge (src/src/server/inbox.rs): http_post_inbox and  *)
(* the translation of NET-A activities into NET-N events, with the shared  *)
(* state of AppState (src/src/main.rs): the two follow maps, the id        *)
(* binding store, the relay pool (as the log of events sent) and the       *)
(* snapshot file.                                                          *)
(*                                                                         *)
(* main (src/src/main.rs) is modelled from its first line: the assertion   *)
(* on the secret, the load of the follow graph and the join of the three   *)
(* top-level tasks.  The tags and the text get_event_from_note makes from  *)
(* a note's parent and content are modelled on their own (TrSpec).         *)
(*                                                                         *)
(* Every inbound request owns one slot i.  pc[i] is the position of its    *)
(* handler or of the task the handler spawned; a step of the model is the  *)
(* code between two suspension points (.await) or two lock acquisitions.   *)
(* The runtime is multi-threaded (#[tokio::main]), so the steps of         *)
(* different requests interleave freely.                                   *)
(*                                                                         *)
(* Identifiers are integers: 1, 2, ... are NET-A note URLs, LocalNoteUrl   *)
(* is a URL under NOTE_ID_PREFIX, 0 is an absent optional field, and the   *)
(* members of ActIds and UndoIds are activity ids.                         *)
(***************************************************************************)
EXTENDS Integers, Sequences, FiniteSets, TLC

VARIABLES
    tr,         \* one translation on its own: the note's content and parent, the tags and text made
    main,       \* main(): where it is, SECRET_KEY.len(), the state of its three tasks
    depth,      \* 0: the small note graph; d > 0: a reply chain with d ancestors
    now,        \* Timestamp::now(): the wall clock, in seconds
    held,       \* the mutexes each request holds at its suspension point
    stopped,    \* db.is_stopped_ap: the opt-out set of NET-A actor ids
    reqs,       \* the inbound requests, by slot
    pc,         \* position of each request's handler or spawned task
    resp,       \* HTTP status returned for each request (0: none yet)
    stack,      \* call stack of get_event_from_note / get_event_from_object_id
    loc,        \* locals a handler or task keeps across a suspension point
    db,         \* id binding store: InternalApId -> event id
    published,  \* events handed to nostr_send, in the order of the calls
    fwd,        \* nostr_account_to_followers: pubkey -> set of actor ids
    rev,        \* nostr_account_to_followers_rev: actor id -> set of pubkeys
    file,       \* content of nostr_accounts.json
    outbox      \* Accept activities posted to NET-A inboxes

vars == <<tr, main, depth, now, held, stopped, reqs, pc, resp, stack, loc, db, published, fwd, rev,
          file, outbox>>

(* ------------------------------ bounds -------------------------------- *)

\* Number of inbound requests in one run.
MaxReq == 2

\* The reply chains tried have ThreadCap - 1 .. ThreadCap + ChainExtra ancestors.
ChainExtra == 3

\* The wall clock runs from 0 to MaxClock.
MaxClock == 2

\* The secrets tried are SecretKeyFloor - KeySpan .. SecretKeyFloor + KeySpan
\* bytes long.
KeySpan == 1

\* The contents tried have up to MaxTokens tokens.
MaxTokens == 5

\* The parents tried carry up to MaxTags tags.
MaxTags == 2

\* The follow graphs a start may find hold no followed key or
\* CONTACT_LIST_LEN_LIMIT - 2 .. CONTACT_LIST_LEN_LIMIT + BulkOver of them.
BulkOver == 0

(* ------------------------- program constants -------------------------- *)

\* visited.len() > 100
ThreadCap == 100

CONTACT_LIST_LEN_LIMIT == 500

\* A URL that starts with NOTE_ID_PREFIX: a note of this server.
LocalNoteUrl == -1

(* ------------------------------ universe ------------------------------ *)

Actors == {"a1", "a2"}

\* An actor id under USER_ID_PREFIX: get_actor_data answers Proxied.
BridgeUser == "px"

Pubkeys == {"p1"}

\* A second actor on the host of a1: the sender of Deletes of a1's notes.
SameHostActor == "a3"

HostOfActor(a) == IF a \in {"a1", SameHostActor} THEN "h1" ELSE "h2"

\* actor.inbox.is_some(): a1 declares an inbox, a2 declares none.
HasInbox(a) == a = "a1"

\* Ids of Like and Announce activities, one on each host.
ActIds == {1001, 1002}

UndoIds == {2001}

Slots == 1..MaxReq

NoEv == [k |-> "none", s |-> 0, a |-> "none"]

\* The event id: the hash of what the event is made from.
EventId(kind, src, author) == [k |-> kind, s |-> src, a |-> author]

\* The NET-N note the relays hold for LocalNoteUrl.
NativeEvent == EventId("note", LocalNoteUrl, "p1")

\* The notes NET-A servers answer with, in the small graph.
SmallGraph ==
    <<
      [host |-> "h1", attr |-> "a1", pub |-> TRUE,  reply |-> 2, quote |-> 0, prox |-> FALSE],
      [host |-> "h1", attr |-> "a1", pub |-> TRUE,  reply |-> 0, quote |-> 1, prox |-> FALSE],
      [host |-> "h2", attr |-> "a2", pub |-> FALSE, reply |-> 2, quote |-> 4, prox |-> FALSE],
      [host |-> "h2", attr |-> "a2", pub |-> TRUE,  reply |-> 0, quote |-> 0, prox |-> TRUE],
      [host |-> "h2", attr |-> "a1", pub |-> TRUE,  reply |-> LocalNoteUrl, quote |-> 0, prox |-> FALSE]
    >>

\* Note k of a reply chain: k replies to k + 1, the last note replies to nothing.
ChainNote(k) ==
    [host |-> "h1", attr |-> "a1", pub |-> TRUE,
     reply |-> IF k <= depth THEN k + 1 ELSE 0, quote |-> 0, prox |-> FALSE]

NoteIds == IF depth = 0 THEN DOMAIN SmallGraph ELSE 1..(depth + 1)

Note(k) == IF depth = 0 THEN SmallGraph[k] ELSE ChainNote(k)

\* The notes inbound activities name: any note of the small graph, the newest
\* note of a reply chain.
Targets == IF depth = 0 THEN NoteIds ELSE {1}

HostOfId(id) ==
    IF id \in ActIds THEN (IF id = 1001 THEN "h1" ELSE "h2")
    ELSE IF id \in NoteIds THEN Note(id).host
    ELSE "bridge"

(* -------------------------------- main -------------------------------- *)

\* assert!(SECRET_KEY.len() > 10)
SecretKeyFloor == 10

\* The futures main joins: the inbound listener, the subscription consumer
\* and the deadlock watchdog.
Tasks == {"listen", "watch", "watchdog"}

\* main at the try_join! of lines 185-190 with its three futures pending,
\* under a secret the assertion of line 95 let through.
Serving ==
    [at |-> "join", key |-> SecretKeyFloor + 1, tasks |-> [t \in Tasks |-> "run"]]

\* read_to_string("nostr_accounts.json") fails: there is no file.
NoFile == "absent" :> {}

\* A file that serde_json does not parse.
Corrupt == "corrupt" :> {}

(* ------------------------------ helpers ------------------------------- *)

InSeq(x, seq) == \E j \in 1..Len(seq) : seq[j] = x

Ok(ev) == [ok |-> TRUE, ev |-> ev, err |-> "none"]

Err(e) == [ok |-> FALSE, ev |-> NoEv, err |-> e]

\* No call has returned since the last result was consumed.
NoRet == Err("noret")

\* get_event_from_object_id goes on to get_event_from_note.
Descend == Err("descend")

NoLoc == [ret |-> NoRet, tags |-> {}, snap |-> <<>>]

\* A published event: its id (k, s, a), the event it refers to, its p tags
\* and its created_at.
Event(id, ref, ps, t) ==
    [k |-> id.k, s |-> id.s, a |-> id.a, ref |-> ref, ps |-> ps, t |-> t]

\* The published time a note or an activity carries: set by its sender, in the
\* past or in the future of the bridge's clock.
PublishedAt(id) == IF id \in NoteIds THEN 0 ELSE 1

\* parking_lot::Mutex::lock and the drop of the guard, on the set h of the
\* mutexes a request holds.
Lock(h, l) == h \cup {l}

\* A guard that is kept over the next suspension point.
KeepLock(h, l) == h

Unlock(h, l) == h \ {l}

\* lock() returns once no other request holds the mutex.
LockFree(i, l) == \A j \in Slots \ {i} : l \notin held[j]

IdOf(ev) == EventId(ev.k, ev.s, ev.a)

\* A validation that lets every id through, whatever its host.
AnyHost(ap_id, actor_id) == TRUE

\* InternalApId::get: Ok exactly when the id's host is the actor's host.
InternalApIdGet(ap_id, actor_id) == HostOfId(ap_id) = HostOfActor(actor_id)

\* A lookup that never finds a binding.
NeverBound(ap_id) == FALSE

\* db.get_event_id_from_ap_id(..).is_some()
Bound(ap_id) == ap_id \in DOMAIN db

\* db.insert_ap_id_to_event_id
DbInsert(ap_id, id) == (ap_id :> id) @@ db

(* -------- get_event_from_object_id and get_event_from_note ----------- *)

NoteFrame(n, actor, vis) ==
    [fn |-> "note", n |-> n, actor |-> actor, vis |-> vis, at |-> "start",
     par |-> NoEv, q |-> NoEv]

ObjFrame(url, vis) ==
    [fn |-> "obj", n |-> url, actor |-> "none", vis |-> vis, at |-> "start",
     par |-> NoEv, q |-> NoEv]

Top(i) == stack[i][Len(stack[i])]

Pop(i) == SubSeq(stack[i], 1, Len(stack[i]) - 1)

Running(i) == pc[i] = "call" /\ stack[i] # <<>>

\* The top call returns r to its caller.  The outermost call returns to the
\* task spawned for a Create, which ends (lines 258-264), or to the handler of
\* an Announce, which goes on to the repost (line 347).
Return(i, r) ==
    /\ stack' = [stack EXCEPT ![i] = Pop(i)]
    /\ loc' = [loc EXCEPT ![i].ret = r]
    /\ pc' = [pc EXCEPT ![i] =
                 IF Len(stack[i]) > 1 THEN "call"
                 ELSE IF reqs[i].kind = "Create" THEN "done" ELSE "repost"]

\* state.get_note(event_id): the relays answer or they do not.
GetNote == {Ok(NativeEvent), Err("CouldNotGetEventFromNostr")}

\* A resolution that does not look at proxiedFrom and translates every note
\* it fetched.
ObjOutcomesNoProxy(url, vis) ==
    IF url = LocalNoteUrl THEN GetNote
    ELSE IF InSeq(url, vis) THEN {Err("CyclicRefernce")}
    ELSE IF Len(vis) > ThreadCap THEN {Err("TooLongThread")}
    ELSE (IF Bound(url) THEN {Ok(db[url])} ELSE {})
         \cup {Err("CouldNotGetObjectFromAp")}
         \cup {Descend}

\* A resolution whose cap rejects a trail of ThreadCap URLs already.
ObjOutcomesCapOff(url, vis) ==
    IF url = LocalNoteUrl THEN GetNote
    ELSE IF InSeq(url, vis) THEN {Err("CyclicRefernce")}
    ELSE IF Len(vis) >= ThreadCap THEN {Err("TooLongThread")}
    ELSE (IF Bound(url) THEN {Ok(db[url])} ELSE {})
         \cup {Err("CouldNotGetObjectFromAp")}
         \cup (IF Note(url).prox THEN GetNote ELSE {Descend})

\* What one call of get_event_from_object_id(url, visited) comes to before it
\* calls get_event_from_note: a result, or Descend.
ObjOutcomes(url, vis) ==
    IF url = LocalNoteUrl THEN GetNote
    ELSE IF InSeq(url, vis) THEN {Err("CyclicRefernce")}
    ELSE IF Len(vis) > ThreadCap THEN {Err("TooLongThread")}
    ELSE (IF Bound(url) THEN {Ok(db[url])} ELSE {})
         \cup {Err("CouldNotGetObjectFromAp")}
         \cup (IF Note(url).prox THEN GetNote ELSE {Descend})

\* A translation that leaves the URL out of the trail.
TranslateSameTrail(url, vis) == NoteFrame(url, Note(url).attr, vis)

\* Lines 530-531: the URL joins the trail and the fetched note is translated
\* under the key of the actor it is attributed to.
Translate(url, vis) == NoteFrame(url, Note(url).attr, Append(vis, url))

\* get_event_from_object_id, lines 477-537.
ObjStep(i) ==
    /\ Running(i)
    /\ Top(i).fn = "obj"
    /\ \E out \in ObjOutcomes(Top(i).n, Top(i).vis) :
          IF out = Descend
          THEN /\ stack' = [stack EXCEPT ![i] =
                              Append(Pop(i), Translate(Top(i).n, Top(i).vis))]
               /\ loc' = loc
               /\ pc' = pc
          ELSE Return(i, out)
    /\ UNCHANGED <<tr, main, depth, now, held, stopped, reqs, resp, db, published, fwd, rev, file, outbox>>

\* The frames on top of the stack once the reply parent is settled: the quote
\* is resolved next, if the note has one (lines 747-748).
ToQuote(f) ==
    IF Note(f.n).quote # 0
    THEN <<[f EXCEPT !.at = "quote"], ObjFrame(Note(f.n).quote, f.vis)>>
    ELSE <<[f EXCEPT !.at = "finish"]>>

\* get_event_from_note up to the resolution of in_reply_to, lines 589-607.
NoteStart(i) ==
    /\ Running(i)
    /\ Top(i).fn = "note" /\ Top(i).at = "start"
    /\ stack' = [stack EXCEPT ![i] =
                    IF Note(Top(i).n).reply # 0
                    THEN Pop(i) \o <<[Top(i) EXCEPT !.at = "reply"],
                                     ObjFrame(Note(Top(i).n).reply, Top(i).vis)>>
                    ELSE Pop(i) \o ToQuote(Top(i))]
    /\ UNCHANGED <<tr, main, depth, now, held, stopped, reqs, pc, resp, loc, db, published, fwd, rev, file, outbox>>

\* The parent came back: an error is passed on (the ? of line 607), an event
\* gives the reply tags (lines 608-647).
NoteGotReply(i) ==
    /\ Running(i)
    /\ Top(i).fn = "note" /\ Top(i).at = "reply"
    /\ loc[i].ret # NoRet
    /\ IF loc[i].ret.ok
       THEN /\ stack' = [stack EXCEPT ![i] =
                            Pop(i) \o ToQuote([Top(i) EXCEPT !.par = loc[i].ret.ev])]
            /\ loc' = [loc EXCEPT ![i].ret = NoRet]
            /\ pc' = pc
       ELSE Return(i, loc[i].ret)
    /\ UNCHANGED <<tr, main, depth, now, held, stopped, reqs, resp, db, published, fwd, rev, file, outbox>>

\* The quote came back: an event gives the q tag, an error is logged (lines 748-770).
NoteGotQuote(i) ==
    /\ Running(i)
    /\ Top(i).fn = "note" /\ Top(i).at = "quote"
    /\ loc[i].ret # NoRet
    /\ stack' = [stack EXCEPT ![i] = Append(Pop(i),
                    [Top(i) EXCEPT !.at = "finish",
                                   !.q = IF loc[i].ret.ok THEN loc[i].ret.ev ELSE NoEv])]
    /\ loc' = [loc EXCEPT ![i].ret = NoRet]
    /\ UNCHANGED <<tr, main, depth, now, held, stopped, reqs, pc, resp, db, published, fwd, rev, file, outbox>>

\* A translation that does not validate the note id against the actor.
NoteResultUnchecked(f) ==
    IF ~Note(f.n).pub THEN Err("IsPrivate")
    ELSE IF f.actor \in stopped THEN Err("OptOutedAccount")
    ELSE Ok(EventId("note", f.n, f.actor))

\* What get_event_from_note returns for frame f, lines 778-813.
NoteResult(f) ==
    IF ~Note(f.n).pub THEN Err("IsPrivate")
    ELSE IF f.actor \in stopped THEN Err("OptOutedAccount")
    ELSE IF ~InternalApIdGet(f.n, f.actor) THEN Err("InvalidActorId")
    ELSE Ok(EventId("note", f.n, f.actor))

\* A text note stamped with the wall clock.
TextNoteNow(f) ==
    Event(EventId("note", f.n, f.actor), f.par,
          {e.a : e \in {f.par, f.q} \ {NoEv}}, now)

\* The text note built at lines 800-807: e tag of the parent, p tags of the
\* parent's and the quoted event's authors.
TextNote(f) ==
    Event(EventId("note", f.n, f.actor), f.par,
          {e.a : e \in {f.par, f.q} \ {NoEv}}, PublishedAt(f.n))

\* The end of get_event_from_note, lines 778-813: the checks (for an opted-out
\* author the mentions are looked up under the lock of activitypub_accounts,
\* line 790), then send_event.
NoteFinish(i) ==
    /\ Running(i)
    /\ Top(i).fn = "note" /\ Top(i).at = "finish"
    /\ Return(i, NoteResult(Top(i)))
    /\ IF NoteResult(Top(i)).ok
       THEN /\ db' = DbInsert(Top(i).n, NoteResult(Top(i)).ev)
            /\ published' = Append(published, TextNote(Top(i)))
       ELSE UNCHANGED <<db, published>>
    /\ IF NoteResult(Top(i)).err = "OptOutedAccount"
       THEN /\ LockFree(i, "acc")
            /\ held' = [held EXCEPT ![i] = Unlock(Lock(@, "acc"), "acc")]
       ELSE held' = held
    /\ UNCHANGED <<tr, main, depth, now, stopped, reqs, resp, fwd, rev, file, outbox>>

(* --------------------------- http_post_inbox -------------------------- *)

NoReq == [kind |-> "none", actor |-> "none", sig |-> TRUE, id |-> 0, obj |-> 0,
          who |-> "none", pub |-> TRUE, undo |-> 0]

Req(kind, actor, id, obj, who, pub, undo) ==
    [kind |-> kind, actor |-> actor, sig |-> TRUE, id |-> id, obj |-> obj,
     who |-> who, pub |-> pub, undo |-> undo]

Kinds == {"Follow", "UndoFollow", "UndoLike", "Create", "Like", "Announce",
          "Delete", "Other"}

\* The next request takes the first free slot.
Free(i) == reqs[i] = NoReq /\ \A j \in 1..(i - 1) : reqs[j] # NoReq

\* The handler of request r in slot i returns result (Ok or BadRequest) and
\* leaves the request's task, if it spawned one, at position at.
Answer(i, r, result, at) ==
    /\ reqs' = [reqs EXCEPT ![i] = r]
    /\ resp' = [resp EXCEPT ![i] = result]
    /\ pc' = [pc EXCEPT ![i] = at]

\* The handler of request r in slot i reaches a suspension point at position at.
Suspend(i, r, at) ==
    /\ reqs' = [reqs EXCEPT ![i] = r]
    /\ resp' = resp
    /\ pc' = [pc EXCEPT ![i] = at]

\* Delete of a user: ignored before the actor is resolved (lines 44-47).
HandleDeleteUser(i) ==
    /\ Free(i)
    /\ \E actor \in Actors \cup {BridgeUser}, sig \in BOOLEAN :
          Answer(i, [NoReq EXCEPT !.kind = "DeleteUser", !.actor = actor, !.sig = sig],
                 "Ok", "done")
    /\ UNCHANGED <<tr, main, depth, now, held, stopped, stack, loc, db, published, fwd, rev, file, outbox>>

\* A handler that verifies the signature after the forward map was updated.
HandleRejectedAfterUpdate(i) ==
    /\ Free(i)
    /\ \E kind \in Kinds, actor \in Actors \cup {BridgeUser}, sig \in BOOLEAN :
          /\ actor = BridgeUser \/ ~sig
          /\ Answer(i, [NoReq EXCEPT !.kind = kind, !.actor = actor, !.sig = sig],
                    "BadRequest", "done")
          /\ fwd' = IF kind # "Follow" THEN fwd
                    ELSE IF "p1" \in DOMAIN fwd THEN [fwd EXCEPT !["p1"] = @ \cup {actor}]
                    ELSE ("p1" :> {actor}) @@ fwd
    /\ UNCHANGED <<tr, main, depth, now, held, stopped, stack, loc, db, published, rev, file, outbox>>

\* The actor is a proxied one, or the signature does not verify (lines 48-63).
HandleRejected(i) ==
    /\ Free(i)
    /\ \E kind \in Kinds, actor \in Actors \cup {BridgeUser}, sig \in BOOLEAN :
          /\ actor = BridgeUser \/ ~sig
          /\ Answer(i, [NoReq EXCEPT !.kind = kind, !.actor = actor, !.sig = sig],
                    "BadRequest", "done")
    /\ UNCHANGED <<tr, main, depth, now, held, stopped, stack, loc, db, published, fwd, rev, file, outbox>>

\* get_npub_from_actor_id(object): None for a URL that names no pubkey.
FollowObjects == Pubkeys \cup {"bad"}

\* An update that fills a vacant entry and leaves an occupied one as it is.
FwdInsertVacantOnly(f, followed, actor_id) ==
    IF followed \in DOMAIN f THEN f ELSE (followed :> {actor_id}) @@ f

\* Lines 75-85: the entry of followed gains actor_id.
FwdInsert(f, followed, actor_id) ==
    IF followed \in DOMAIN f
    THEN [f EXCEPT ![followed] = @ \cup {actor_id}]
    ELSE (followed :> {actor_id}) @@ f

\* Follow, lines 69-128: the forward map is updated and the task is spawned.
HandleFollow(i) ==
    /\ Free(i)
    /\ \E actor \in Actors, who \in FollowObjects :
          IF who = "bad"
          THEN /\ Answer(i, Req("Follow", actor, 0, 0, who, TRUE, 0), "BadRequest", "done")
               /\ fwd' = fwd
               /\ held' = held
          ELSE /\ LockFree(i, "fwd")
               /\ Answer(i, Req("Follow", actor, 0, 0, who, TRUE, 0), "Ok", "accept")
               /\ fwd' = FwdInsert(fwd, who, actor)
               /\ held' = [held EXCEPT ![i] = Unlock(Lock(@, "fwd"), "fwd")]
    /\ UNCHANGED <<tr, main, depth, now, stopped, stack, loc, db, published, rev, file, outbox>>

\* The Follow task posts the Accept (lines 91-106).
FollowAccept(i) ==
    /\ pc[i] = "accept"
    /\ outbox' = IF HasInbox(reqs[i].actor)
                 THEN outbox \cup {[to |-> reqs[i].actor, followed |-> reqs[i].who]}
                 ELSE outbox
    /\ pc' = [pc EXCEPT ![i] = "rev"]
    /\ UNCHANGED <<tr, main, depth, now, held, stopped, reqs, resp, stack, loc, db, published, fwd, rev, file>>

\* l.entry(actor_id).or_default()
RevEntry(r, actor_id) == IF actor_id \in DOMAIN r THEN r[actor_id] ELSE {}

RevPut(r, actor_id, l) ==
    IF actor_id \in DOMAIN r THEN [r EXCEPT ![actor_id] = l] ELSE (actor_id :> l) @@ r

\* A Follow task that lists the followed keys whatever their number.
FollowRevNoCap(i) ==
    /\ pc[i] = "rev"
    /\ LockFree(i, "rev")
    /\ held' = [held EXCEPT ![i] = Unlock(Lock(@, "rev"), "rev")]
    /\ LET l == RevEntry(rev, reqs[i].actor) \cup {reqs[i].who} IN
          /\ rev' = RevPut(rev, reqs[i].actor, l)
          /\ loc' = [loc EXCEPT ![i].tags = l]
    /\ pc' = [pc EXCEPT ![i] = "send"]
    /\ UNCHANGED <<tr, main, depth, now, stopped, reqs, resp, stack, db, published, fwd, file, outbox>>

\* The Follow task updates the reverse map and takes the tags (lines 108-119).
FollowRev(i) ==
    /\ pc[i] = "rev"
    /\ LockFree(i, "rev")
    /\ held' = [held EXCEPT ![i] = Unlock(Lock(@, "rev"), "rev")]
    /\ LET l == RevEntry(rev, reqs[i].actor) \cup {reqs[i].who} IN
          /\ rev' = RevPut(rev, reqs[i].actor, l)
          /\ loc' = [loc EXCEPT ![i].tags =
                        IF Cardinality(l) < CONTACT_LIST_LEN_LIMIT THEN l ELSE {}]
    /\ pc' = [pc EXCEPT ![i] = "send"]
    /\ UNCHANGED <<tr, main, depth, now, stopped, reqs, resp, stack, db, published, fwd, file, outbox>>

\* The contact list is signed with the actor's key and sent (lines 120-124, 170-174).
ContactSend(i) ==
    /\ pc[i] = "send"
    /\ published' = Append(published,
                       Event(EventId("contacts", 0, reqs[i].actor), NoEv, loc[i].tags, now))
    /\ loc' = [loc EXCEPT ![i].tags = {}]
    /\ pc' = [pc EXCEPT ![i] = "snap"]
    /\ UNCHANGED <<tr, main, depth, now, held, stopped, reqs, resp, stack, db, fwd, rev, file, outbox>>

\* backup_nostr_accounts serializes the forward map under its lock (line 466).
BackupSnap(i) ==
    /\ pc[i] = "snap"
    /\ LockFree(i, "fwd")
    /\ held' = [held EXCEPT ![i] = Unlock(Lock(@, "fwd"), "fwd")]
    /\ loc' = [loc EXCEPT ![i].snap = fwd]
    /\ pc' = [pc EXCEPT ![i] = "write"]
    /\ UNCHANGED <<tr, main, depth, now, stopped, reqs, resp, stack, db, published, fwd, rev, file, outbox>>

\* backup_nostr_accounts writes the file (lines 467-472); the handler of an
\* Undo(Follow) then returns.
BackupWrite(i) ==
    /\ pc[i] = "write"
    /\ file' = loc[i].snap
    /\ loc' = [loc EXCEPT ![i].snap = <<>>]
    /\ pc' = [pc EXCEPT ![i] = "done"]
    /\ resp' = [resp EXCEPT ![i] = "Ok"]
    /\ UNCHANGED <<tr, main, depth, now, held, stopped, reqs, stack, db, published, fwd, rev, outbox>>

\* Lines 138-152: actor_id leaves the entry of object; the entry is removed
\* when the set held before the removal was empty.
FwdRemove(f, object, actor_id) ==
    IF object \notin DOMAIN f THEN f
    ELSE IF f[object] = {} THEN [q \in DOMAIN f \ {object} |-> f[q]]
    ELSE [f EXCEPT ![object] = @ \ {actor_id}]

\* Undo(Follow), lines 133-153: the forward map is updated.
HandleUndoFollow(i) ==
    /\ Free(i)
    /\ \E actor \in Actors, who \in FollowObjects :
          IF who = "bad"
          THEN /\ Answer(i, Req("UndoFollow", actor, 0, 0, who, TRUE, 0), "BadRequest", "done")
               /\ fwd' = fwd
               /\ held' = held
          ELSE /\ LockFree(i, "fwd")
               /\ Suspend(i, Req("UndoFollow", actor, 0, 0, who, TRUE, 0), "urev")
               /\ fwd' = FwdRemove(fwd, who, actor)
               /\ held' = [held EXCEPT ![i] = Unlock(Lock(@, "fwd"), "fwd")]
    /\ UNCHANGED <<tr, main, depth, now, stopped, stack, loc, db, published, rev, file, outbox>>

\* Undo(Follow), lines 154-168: the reverse map is updated and the tags taken;
\* at or above the limit no contact list is sent.
UndoFollowRev(i) ==
    /\ pc[i] = "urev"
    /\ LockFree(i, "rev")
    /\ held' = [held EXCEPT ![i] = Unlock(Lock(@, "rev"), "rev")]
    /\ LET l == RevEntry(rev, reqs[i].actor) \ {reqs[i].who} IN
          /\ rev' = RevPut(rev, reqs[i].actor, l)
          /\ loc' = [loc EXCEPT ![i].tags = l]
          /\ pc' = [pc EXCEPT ![i] =
                       IF Cardinality(l) < CONTACT_LIST_LEN_LIMIT THEN "send" ELSE "snap"]
    /\ UNCHANGED <<tr, main, depth, now, stopped, reqs, resp, stack, db, published, fwd, file, outbox>>

\* URLs a Like or an Undo(Like) names as its object: the note of this server,
\* and a URL that is none (get_note_from_this_server answers None).
LikeObjects == {LocalNoteUrl, 1}

\* get_note_from_this_server(object).is_some(): possible for a URL of this
\* server only, and then up to the relays (lines 438-442).
NoteFound(obj) == IF obj = LocalNoteUrl THEN BOOLEAN ELSE {FALSE}

\* Create, lines 246-265.
Create(i, actor, n) ==
    /\ Free(i)
    /\ LET r == Req("Create", actor, n, 0, "none", TRUE, 0) IN
          IF Note(n).prox \/ ~InternalApIdGet(n, actor)
          THEN Answer(i, r, "BadRequest", "done") /\ stack' = stack
          ELSE IF Bound(n)
          THEN Answer(i, r, "Ok", "done") /\ stack' = stack
          ELSE /\ Answer(i, r, "Ok", "call")
               /\ stack' = [stack EXCEPT ![i] = <<NoteFrame(n, actor, <<>>)>>]
    /\ UNCHANGED <<tr, main, depth, now, held, stopped, loc, db, published, fwd, rev, file, outbox>>

HandleCreate(i) == \E actor \in Actors, n \in Targets : Create(i, actor, n)

\* Like, lines 266-279: up to the fetch of the liked note.
HandleLike(i) ==
    /\ Free(i)
    /\ \E actor \in Actors, id \in ActIds, obj \in LikeObjects :
          LET r == Req("Like", actor, id, obj, "none", TRUE, 0) IN
          IF actor \in stopped THEN Answer(i, r, "Ok", "done")
          ELSE IF ~InternalApIdGet(id, actor) THEN Answer(i, r, "BadRequest", "done")
          ELSE IF Bound(id) THEN Answer(i, r, "Ok", "done")
          ELSE Suspend(i, r, "like")
    /\ UNCHANGED <<tr, main, depth, now, held, stopped, stack, loc, db, published, fwd, rev, file, outbox>>

\* Like, lines 280-319: the note is fetched, the reaction bound and sent.
LikeSend(i) ==
    /\ pc[i] = "like"
    /\ \E found \in NoteFound(reqs[i].obj) :
          IF found
          THEN /\ db' = DbInsert(reqs[i].id, EventId("reaction", reqs[i].id, reqs[i].actor))
               /\ published' = Append(published,
                      Event(EventId("reaction", reqs[i].id, reqs[i].actor),
                            NativeEvent, {NativeEvent.a}, now))
               /\ resp' = [resp EXCEPT ![i] = "Ok"]
          ELSE /\ resp' = [resp EXCEPT ![i] = "BadRequest"]
               /\ UNCHANGED <<db, published>>
    /\ pc' = [pc EXCEPT ![i] = "done"]
    /\ UNCHANGED <<tr, main, depth, now, held, stopped, reqs, stack, loc, fwd, rev, file, outbox>>

\* Announce, lines 320-348: up to the resolution of the announced object.
HandleAnnounce(i) ==
    /\ Free(i)
    /\ \E actor \in Actors, id \in ActIds, obj \in Targets \cup {LocalNoteUrl},
          pub \in BOOLEAN :
          LET r == Req("Announce", actor, id, obj, "none", pub, 0) IN
          IF actor \in stopped \/ ~pub THEN Answer(i, r, "Ok", "done") /\ stack' = stack
          ELSE IF ~InternalApIdGet(id, actor)
          THEN Answer(i, r, "BadRequest", "done") /\ stack' = stack
          ELSE IF Bound(id) THEN Answer(i, r, "Ok", "done") /\ stack' = stack
          ELSE /\ Suspend(i, r, "call")
               /\ stack' = [stack EXCEPT ![i] = <<ObjFrame(obj, <<>>)>>]
    /\ UNCHANGED <<tr, main, depth, now, held, stopped, loc, db, published, fwd, rev, file, outbox>>

\* Announce, lines 347-372: the repost of a resolved object is bound and sent.
AnnounceFinish(i) ==
    /\ pc[i] = "repost"
    /\ IF loc[i].ret.ok
       THEN /\ db' = DbInsert(reqs[i].id, EventId("repost", reqs[i].id, reqs[i].actor))
            /\ published' = Append(published,
                   Event(EventId("repost", reqs[i].id, reqs[i].actor),
                         loc[i].ret.ev, {loc[i].ret.ev.a}, PublishedAt(reqs[i].id)))
       ELSE UNCHANGED <<db, published>>
    /\ resp' = [resp EXCEPT ![i] = "Ok"]
    /\ pc' = [pc EXCEPT ![i] = "done"]
    /\ UNCHANGED <<tr, main, depth, now, held, stopped, reqs, stack, loc, fwd, rev, file, outbox>>

\* Delete of a note, lines 373-385.
HandleDelete(i) ==
    /\ Free(i)
    /\ \E actor \in Actors \cup {SameHostActor}, n \in Targets :
          LET r == Req("Delete", actor, n, 0, "none", TRUE, 0) IN
          IF ~InternalApIdGet(n, actor)
          THEN Answer(i, r, "BadRequest", "done") /\ loc' = loc
          ELSE IF Bound(n)
          THEN Answer(i, r, "Ok", "delete") /\ loc' = [loc EXCEPT ![i].ret = Ok(db[n])]
          ELSE Answer(i, r, "Ok", "done") /\ loc' = loc
    /\ UNCHANGED <<tr, main, depth, now, held, stopped, stack, db, published, fwd, rev, file, outbox>>

\* state.delete_event(e, nsec): a deletion of e is sent under the actor's key
\* and the binding of e is removed.
DeleteEvent(i) ==
    /\ pc[i] = "delete"
    /\ published' = Append(published,
           Event(EventId("deletion", 0, reqs[i].actor), loc[i].ret.ev, {}, now))
    /\ db' = [k \in {x \in DOMAIN db : db[x] # loc[i].ret.ev} |-> db[k]]
    /\ pc' = [pc EXCEPT ![i] = "done"]
    /\ UNCHANGED <<tr, main, depth, now, held, stopped, reqs, resp, stack, loc, fwd, rev, file, outbox>>

\* Undo(Like), lines 179-212: the liked note is fetched, the Like's id is
\* validated and the task is spawned.
HandleUndoLike(i) ==
    /\ Free(i)
    /\ \E actor \in Actors, id \in ActIds, undo \in UndoIds, obj \in LikeObjects :
          \E found \in NoteFound(obj) :
          LET r == Req("UndoLike", actor, id, obj, "none", TRUE, undo) IN
          IF ~found \/ ~InternalApIdGet(id, actor)
          THEN Answer(i, r, "BadRequest", "done")
          ELSE Answer(i, r, "Ok", "undolike")
    /\ UNCHANGED <<tr, main, depth, now, held, stopped, stack, loc, db, published, fwd, rev, file, outbox>>

\* A filter that matches the reactions of every author.
ReactionsOfAnyone(r) ==
    {j \in 1..Len(published) :
        /\ published[j].k = "reaction"
        /\ published[j].ref = NativeEvent}

\* The reactions the filter of lines 183-208 matches: by the actor's key, on
\* the liked note, labelled with the Like's id.
Reactions(r) ==
    {j \in 1..Len(published) :
        /\ published[j].k = "reaction"
        /\ published[j].a = r.actor
        /\ published[j].s = r.id
        /\ published[j].ref = NativeEvent}

\* limit: Some(1): the most recent of the events matched.
Latest(S) == CHOOSE j \in S : \A k \in S : k <= j

\* The Undo(Like) task, lines 212-240: on a hit the deletion of the reaction
\* found is bound to the Like's id and sent.
UndoLikeTask(i) ==
    /\ pc[i] = "undolike"
    /\ \E hit \in (IF Reactions(reqs[i]) # {} THEN BOOLEAN ELSE {FALSE}) :
          IF hit
          THEN /\ db' = DbInsert(reqs[i].id, EventId("deletion", reqs[i].undo, reqs[i].actor))
               /\ published' = Append(published,
                      Event(EventId("deletion", reqs[i].undo, reqs[i].actor),
                            IdOf(published[Latest(Reactions(reqs[i]))]), {}, now))
          ELSE UNCHANGED <<db, published>>
    /\ pc' = [pc EXCEPT ![i] = "done"]
    /\ UNCHANGED <<tr, main, depth, now, held, stopped, reqs, resp, stack, loc, fwd, rev, file, outbox>>

\* An Undo of anything else, an activity that is not implemented (lines 242-244,
\* 391-393).
HandleOther(i) ==
    /\ Free(i)
    /\ \E actor \in Actors :
          Answer(i, Req("Other", actor, 0, 0, "none", TRUE, 0), "Ok", "done")
    /\ UNCHANGED <<tr, main, depth, now, held, stopped, stack, loc, db, published, fwd, rev, file, outbox>>

\* A second passes on the wall clock.
Tick ==
    /\ now < MaxClock
    /\ now' = now + 1
    /\ UNCHANGED <<tr, main, depth, held, stopped, reqs, pc, resp, stack, loc, db, published,
                   fwd, rev, file, outbox>>

(* ------------------ the tags and the text of a note ------------------- *)

\* A content is a sequence of tokens: a bare mention (@user or @user@host), a
\* linked mention ([@user](url)), a space, a line break, and text that starts
\* with a character no handle holds.
Tokens == {"bare", "link", "sp", "nl", "text"}

\* handle_text: (?:handle) | (?:\[handle\]\([^)]*\))
IsHandleText(tok) == tok \in {"bare", "link"}

\* \s
IsSpace(tok) == tok \in {"sp", "nl"}

\* \s* from position k + 1 on: the position of the last token it takes.
RECURSIVE SkipSpace(_, _)
SkipSpace(c, k) ==
    IF k < Len(c) /\ IsSpace(c[k + 1]) THEN SkipSpace(c, k + 1) ELSE k

\* A run whose mentions any white space separates.
RECURSIVE RunEndAnySpace(_, _)
RunEndAnySpace(c, k) ==
    IF k + 2 <= Len(c) /\ IsSpace(c[k + 1]) /\ IsHandleText(c[k + 2])
    THEN RunEndAnySpace(c, k + 2) ELSE k

\* (?:{handle_text}\ )*{handle_text} with a first handle_text that ends at k:
\* the greedy star takes every further handle_text that follows one space.
RECURSIVE RunEnd(_, _)
RunEnd(c, k) ==
    IF k + 2 <= Len(c) /\ c[k + 1] = "sp" /\ IsHandleText(c[k + 2])
    THEN RunEnd(c, k + 2) ELSE k

\* HEAD_MENTIONS_REGEX.find(content), lines 552-562: the end of the match of
\* ^\s*(?:{handle_text}\ )*{handle_text}\s*, -1 when there is none.
HeadMentionsEnd(c) ==
    LET a == SkipSpace(c, 0) IN
    IF a < Len(c) /\ IsHandleText(c[a + 1])
    THEN SkipSpace(c, RunEnd(c, a + 1))
    ELSE -1

\* Lines 679-687: the content of a reply loses the match; any other content,
\* and a content without a match, stays.
StripHead(is_reply, c) ==
    IF is_reply /\ HeadMentionsEnd(c) >= 0
    THEN SubSeq(c, HeadMentionsEnd(c) + 1, Len(c))
    ELSE c

\* The tags of a resolved parent seen by lines 609-627: p tags (lowercase),
\* P tags (uppercase) and e tags with a marker or none.
ParentTags ==
    {<<"p", "k1">>, <<"P", "k2">>, <<"e", "r1", "root">>, <<"e", "r2", "root">>,
     <<"e", "x", "reply">>, <<"e", "y", "none">>}

\* Lines 609-627: the event of the last e tag marked root, "none" without one.
RECURSIVE RootOf(_)
RootOf(tags) ==
    IF tags = <<>> THEN "none"
    ELSE LET t == tags[Len(tags)] IN
         IF t[1] = "e" /\ t[3] = "root" THEN t[2]
         ELSE RootOf(SubSeq(tags, 1, Len(tags) - 1))

\* Reply tags without the p tag of the parent's author.
ReplyTagsNoAuthor(e) ==
    {<<"p", e.tags[j][2]>> : j \in {x \in 1..Len(e.tags) : e.tags[x][1] = "p"}}
    \cup (IF RootOf(e.tags) # "none"
          THEN {<<"e", RootOf(e.tags), "root">>, <<"e", e.id, "reply">>}
          ELSE {<<"e", e.id, "root">>})

\* Lines 605-647: the tags a reply takes from its resolved parent e.
ReplyTags(e) ==
    {<<"p", e.tags[j][2]>> : j \in {x \in 1..Len(e.tags) : e.tags[x][1] = "p"}}
    \cup {<<"p", e.pubkey>>}
    \cup (IF RootOf(e.tags) # "none"
          THEN {<<"e", RootOf(e.tags), "root">>, <<"e", e.id, "reply">>}
          ELSE {<<"e", e.id, "root">>})

\* note.in_reply_to is None.
NoParent == [id |-> "none", pubkey |-> "none", tags |-> <<>>]

\* An Option of the note: <<>> is None, <<x>> is Some(x).
None == <<>>

Some(x) == <<x>>

\* Lines 597-604: the content-warning tag, with the summary as its reason or
\* with none; the sensitive flag is looked at only when there is no summary.
ContentWarning(summary, sensitive) ==
    IF summary # None
    THEN (IF summary[1] # "" THEN {<<"content-warning", "some", summary[1]>>} ELSE {})
    ELSE IF sensitive = Some(TRUE) THEN {<<"content-warning", "none", "">>}
    ELSE {}

NoTr ==
    [at |-> "none", content |-> <<>>, parent |-> NoParent, summary |-> None,
     sensitive |-> None, tags |-> {}, text |-> <<>>]

\* note.summary: absent, empty, or a text.
Summaries == {None, Some(""), Some("spoiler")}

\* note.sensitive: absent, or a flag.
Sensitives == {None, Some(TRUE), Some(FALSE)}

\* Sequences over S of length up to n.
SeqsUpTo(S, n) == UNION {[1..k -> S] : k \in 0..n}

Contents == SeqsUpTo(Tokens, MaxTokens)

\* The events in_reply_to may resolve to.
Parents == {[id |-> "par", pubkey |-> "k0", tags |-> ts] : ts \in SeqsUpTo(ParentTags, MaxTags)}

\* get_event_from_note, lines 597-647: the content-warning tag and the reply
\* tags, for a note whose parent resolved or that has none.
TrTags ==
    /\ tr.at = "tags"
    /\ tr' = [tr EXCEPT !.at = "content",
                        !.tags = ContentWarning(tr.summary, tr.sensitive)
                                 \cup (IF tr.parent # NoParent THEN ReplyTags(tr.parent)
                                       ELSE {})]
    /\ UNCHANGED <<main, depth, now, held, stopped, reqs, pc, resp, stack, loc, db,
                   published, fwd, rev, file, outbox>>

\* get_event_from_note, lines 671-687: the content, for a reply without its
\* head mentions.
TrContent ==
    /\ tr.at = "content"
    /\ tr' = [tr EXCEPT !.at = "done",
                        !.text = StripHead(tr.parent # NoParent, tr.content)]
    /\ UNCHANGED <<main, depth, now, held, stopped, reqs, pc, resp, stack, loc, db,
                   published, fwd, rev, file, outbox>>

\* One note translated on its own: every content with no parent and with a
\* plain parent, one content with every parent, and one content with every
\* summary and sensitive flag.
TrInit ==
    /\ \/ tr \in [at : {"tags"}, content : Contents,
                  parent : {NoParent, [id |-> "par", pubkey |-> "k0", tags |-> <<>>]},
                  summary : {None}, sensitive : {None},
                  tags : {{}}, text : {<<>>}]
       \/ tr \in [at : {"tags"}, content : {<<"bare", "sp", "text">>},
                  parent : Parents, summary : {None}, sensitive : {None},
                  tags : {{}}, text : {<<>>}]
       \/ tr \in [at : {"tags"}, content : {<<"bare", "sp", "text">>},
                  parent : {NoParent, [id |-> "par", pubkey |-> "k0", tags |-> <<>>]},
                  summary : Summaries, sensitive : Sensitives,
                  tags : {{}}, text : {<<>>}]
    /\ main = Serving
    /\ depth = 0
    /\ stopped = {}
    /\ now = 0
    /\ held = [i \in Slots |-> {}]
    /\ reqs = [i \in Slots |-> NoReq]
    /\ pc = [i \in Slots |-> "idle"]
    /\ resp = [i \in Slots |-> "none"]
    /\ stack = [i \in Slots |-> <<>>]
    /\ loc = [i \in Slots |-> NoLoc]
    /\ db = <<>>
    /\ published = <<>>
    /\ file = <<>>
    /\ fwd = <<>>
    /\ rev = <<>>
    /\ outbox = {}

TrNext == TrTags \/ TrContent

TrSpec == TrInit /\ [][TrNext]_vars /\ WF_vars(TrNext)

(* --------------------------- specifications --------------------------- *)

\* A rebuild in which a later key of an actor replaces the earlier ones.
RebuildRevLastKey(f) ==
    [a \in {x \in Actors : \E p \in DOMAIN f : x \in f[p]} |->
        {CHOOSE p \in DOMAIN f : a \in f[p]}]

\* main, lines 103-112: the reverse map rebuilt from the forward map.
RebuildRev(f) ==
    [a \in {x \in Actors : \E p \in DOMAIN f : x \in f[p]} |->
        {p \in DOMAIN f : a \in f[p]}]

\* The snapshots a start may find: no file, or one written by an earlier run.
Snapshots == {<<>>, "p1" :> {"a1"}}

\* The state main builds from one of the snapshots S.
InitWith(S) ==
    /\ tr = NoTr
    /\ main = Serving
    /\ stopped \in SUBSET Actors
    /\ now = 0
    /\ held = [i \in Slots |-> {}]
    /\ reqs = [i \in Slots |-> NoReq]
    /\ pc = [i \in Slots |-> "idle"]
    /\ resp = [i \in Slots |-> "none"]
    /\ stack = [i \in Slots |-> <<>>]
    /\ loc = [i \in Slots |-> NoLoc]
    /\ db = <<>>
    /\ published = <<>>
    /\ file \in S
    /\ fwd = file
    /\ rev = RebuildRev(file)
    /\ outbox = {}

InitState == InitWith(Snapshots)

Init == depth = 0 /\ InitState

Next ==
    \E i \in Slots :
        \/ HandleDeleteUser(i)
        \/ HandleRejected(i)
        \/ HandleFollow(i)
        \/ FollowAccept(i)
        \/ FollowRev(i)
        \/ ContactSend(i)
        \/ BackupSnap(i)
        \/ BackupWrite(i)
        \/ HandleUndoFollow(i)
        \/ UndoFollowRev(i)
        \/ HandleCreate(i)
        \/ HandleLike(i)
        \/ LikeSend(i)
        \/ HandleAnnounce(i)
        \/ AnnounceFinish(i)
        \/ HandleDelete(i)
        \/ DeleteEvent(i)
        \/ HandleUndoLike(i)
        \/ UndoLikeTask(i)
        \/ HandleOther(i)
        \/ ObjStep(i)
        \/ NoteStart(i)
        \/ NoteGotReply(i)
        \/ NoteGotQuote(i)
        \/ NoteFinish(i)

Spec == Init /\ [][Next]_vars

\* One inbound Create or Announce, over the small graph and over reply chains
\* around the cap; the runtime keeps polling a task that can make progress.
ThreadInit ==
    /\ depth \in {0} \cup ((ThreadCap - 1)..(ThreadCap + ChainExtra))
    /\ InitState

ThreadNext ==
    \/ HandleCreate(1)
    \/ HandleAnnounce(1)
    \/ AnnounceFinish(1)
    \/ ObjStep(1)
    \/ NoteStart(1)
    \/ NoteGotReply(1)
    \/ NoteGotQuote(1)
    \/ NoteFinish(1)

ThreadSpec == ThreadInit /\ [][ThreadNext]_vars /\ WF_vars(ThreadNext)

\* The keys a1 follows besides p1 in a large follow graph.
BulkKeys(n) == {ToString(k) : k \in 1..n}

BulkSizes ==
    {0} \cup ((CONTACT_LIST_LEN_LIMIT - 2)..(CONTACT_LIST_LEN_LIMIT + BulkOver))

\* Snapshots in which a1 follows n keys, and p1 or not.
FollowSnapshots ==
    {[p \in BulkKeys(n) \cup K |-> {"a1"}] : n \in BulkSizes, K \in {{}, {"p1"}}}

\* Concurrent Follow and Undo(Follow) requests on follow graphs around the
\* limit of the contact list; the runtime keeps polling the handlers and the
\* spawned tasks.
FollowInit == depth = 0 /\ stopped = {} /\ InitWith(FollowSnapshots)

FollowNext ==
    \E i \in Slots :
        \/ HandleFollow(i)
        \/ FollowAccept(i)
        \/ FollowRev(i)
        \/ ContactSend(i)
        \/ BackupSnap(i)
        \/ BackupWrite(i)
        \/ HandleUndoFollow(i)
        \/ UndoFollowRev(i)

FollowSpec == FollowInit /\ [][FollowNext]_vars /\ WF_vars(FollowNext)

\* Likes, Creates, Announces and Undo(Like)s while the wall clock advances.
ClockInit == depth = 0 /\ stopped = {} /\ InitWith({<<>>})

ClockNext ==
    \/ Tick
    \/ \E i \in Slots :
          \/ HandleCreate(i)
          \/ HandleLike(i)
          \/ LikeSend(i)
          \/ HandleAnnounce(i)
          \/ AnnounceFinish(i)
          \/ HandleUndoLike(i)
          \/ UndoLikeTask(i)
          \/ ObjStep(i)
          \/ NoteStart(i)
          \/ NoteGotReply(i)
          \/ NoteGotQuote(i)
          \/ NoteFinish(i)

ClockSpec == ClockInit /\ [][ClockNext]_vars /\ WF_vars(ClockNext)

\* main, line 95: a secret of SecretKeyFloor bytes or fewer fails the assertion
\* and main panics; nothing was loaded and no relay was added yet.
CheckSecret ==
    /\ main.at = "assert"
    /\ main' = [main EXCEPT !.at = IF main.key > SecretKeyFloor THEN "load" ELSE "refused"]
    /\ UNCHANGED <<tr, depth, now, held, stopped, reqs, pc, resp, stack, loc, db, published,
                   fwd, rev, file, outbox>>

\* Lines 97-102: the forward map read from nostr_accounts.json, the default
\* (empty) map when the file cannot be read.
LoadFwd(f) == IF f = NoFile THEN <<>> ELSE f

\* main, lines 97-190: the follow maps are loaded (a file that does not parse
\* fails the unwrap of line 99) and main joins its three tasks.
LoadGraph ==
    /\ main.at = "load"
    /\ IF file = Corrupt
       THEN /\ main' = [main EXCEPT !.at = "panicked"]
            /\ UNCHANGED <<fwd, rev>>
       ELSE /\ main' = [main EXCEPT !.at = "join", !.tasks = [t \in Tasks |-> "run"]]
            /\ fwd' = LoadFwd(file)
            /\ rev' = RebuildRev(LoadFwd(file))
    /\ UNCHANGED <<tr, depth, now, held, stopped, reqs, pc, resp, stack, loc, db, published,
                   file, outbox>>

\* A join that waits for every task, whatever the tasks return.
TaskFailsJoinAll(t) ==
    /\ main.at = "join"
    /\ main.tasks[t] = "run"
    /\ main' = [main EXCEPT !.tasks[t] = "err"]
    /\ UNCHANGED <<tr, depth, now, held, stopped, reqs, pc, resp, stack, loc, db, published,
                   fwd, rev, file, outbox>>

\* try_join!, lines 185-190: a task returns Err (the watchdog when it found a
\* deadlock, line 229); the tasks still pending are dropped and the unwrap
\* panics.
TaskFails(t) ==
    /\ main.at = "join"
    /\ main.tasks[t] = "run"
    /\ main' = [main EXCEPT
                   !.at = "panicked",
                   !.tasks = [u \in Tasks |->
                                IF u = t THEN "err"
                                ELSE IF main.tasks[u] = "run" THEN "dropped"
                                ELSE main.tasks[u]]]
    /\ UNCHANGED <<tr, depth, now, held, stopped, reqs, pc, resp, stack, loc, db, published,
                   fwd, rev, file, outbox>>

\* try_join!, lines 185-190: a task returns Ok; the join goes on polling the
\* others and main returns once all three returned Ok.  The watchdog loops
\* until it returns Err (lines 216-232).
TaskReturns(t) ==
    /\ main.at = "join"
    /\ t # "watchdog"
    /\ main.tasks[t] = "run"
    /\ main' = [main EXCEPT
                   !.tasks[t] = "ok",
                   !.at = IF \A u \in Tasks \ {t} : main.tasks[u] = "ok"
                          THEN "exited" ELSE "join"]
    /\ UNCHANGED <<tr, depth, now, held, stopped, reqs, pc, resp, stack, loc, db, published,
                   fwd, rev, file, outbox>>

\* The listener accepts requests.
Listening == main.at = "join" /\ main.tasks["listen"] = "run"

\* The process runs: spawned tasks and handlers are polled.
Alive == main.at = "join"

\* SECRET_KEY.len() of the builds tried.
KeyLens == (SecretKeyFloor - KeySpan)..(SecretKeyFloor + KeySpan)

\* What a start may find as nostr_accounts.json.
BootSnapshots ==
    {NoFile, Corrupt, <<>>, "p1" :> {"a1"}, "p1" :> {},
     ("p1" :> {"a1", "a2"}) @@ ("1" :> {"a1"})}

\* main from its first line, then Follow and Undo(Follow) requests while the
\* three tasks run; the runtime keeps polling what can make progress.
BootInit ==
    /\ tr = NoTr
    /\ main \in [at : {"assert"}, key : KeyLens, tasks : {[t \in Tasks |-> "no"]}]
    /\ depth = 0
    /\ stopped = {}
    /\ now = 0
    /\ held = [i \in Slots |-> {}]
    /\ reqs = [i \in Slots |-> NoReq]
    /\ pc = [i \in Slots |-> "idle"]
    /\ resp = [i \in Slots |-> "none"]
    /\ stack = [i \in Slots |-> <<>>]
    /\ loc = [i \in Slots |-> NoLoc]
    /\ db = <<>>
    /\ published = <<>>
    /\ file \in BootSnapshots
    /\ fwd = <<>>
    /\ rev = <<>>
    /\ outbox = {}

BootNext ==
    \/ CheckSecret
    \/ LoadGraph
    \/ \E t \in Tasks : TaskFails(t)
    \/ \E t \in Tasks : TaskReturns(t)
    \/ \E i \in Slots :
          \/ Listening /\ HandleFollow(i)
          \/ Listening /\ HandleUndoFollow(i)
          \/ Alive /\ FollowAccept(i)
          \/ Alive /\ FollowRev(i)
          \/ Alive /\ ContactSend(i)
          \/ Alive /\ BackupSnap(i)
          \/ Alive /\ BackupWrite(i)
          \/ Alive /\ UndoFollowRev(i)

BootSpec == BootInit /\ [][BootNext]_vars /\ WF_vars(BootNext)

(* ------------------------------- claims ------------------------------- *)

\* The handler of a request of one of the kinds, with an actor that resolved
\* and a signature that verified, runs its first part in this step, in slot i.
HandlerRuns(i, kinds) ==
    /\ reqs[i] = NoReq
    /\ reqs'[i].kind \in kinds
    /\ reqs'[i].actor \in Actors
    /\ reqs'[i].sig

\* This step is one of the handler or of the task of slot i.
Stepped(i) == pc'[i] # pc[i] \/ stack'[i] # stack[i] \/ loc'[i] # loc[i]

\* The events sent that were made from the activity (or note) id.
SentFor(id) == {j \in 1..Len(published) : published[j].s = id}

\* C1: at most one NET-N event is published for an inbound activity id (the id
\* of a Like or an Announce, the object.id of a Create), under any interleaving
\* of the deliveries.
C1_AtMostOnce ==
    \A id \in NoteIds \cup ActIds : Cardinality(SentFor(id)) <= 1

C3_Mirror ==
    \A a \in Actors, p \in Pubkeys :
        (p \in DOMAIN fwd /\ a \in fwd[p]) <=> (a \in DOMAIN rev /\ p \in rev[a])

\* The kinds whose handler validates an id against the actor's host.
Validated == {"Create", "Like", "Announce", "Delete", "UndoLike"}

\* C4, as claimed: a Create, Like, Announce, Delete(Note) or Undo(Like) whose
\* id has another host than its actor is answered with BadRequest, stores no
\* binding and publishes nothing.
C4_MismatchRejected ==
    [][\A i \in Slots :
          (/\ HandlerRuns(i, Validated)
           /\ HostOfId(reqs'[i].id) # HostOfActor(reqs'[i].actor))
          => (resp'[i] = "BadRequest" /\ pc'[i] = "done"
              /\ db' = db /\ published' = published)
      ]_vars

\* C4, amended: such a request stores no binding, publishes nothing and starts
\* no task; it is answered with BadRequest, except that a Like or an Announce
\* of an opted-out actor and a private Announce are answered with success
\* before the id is validated.
C4_MismatchNoEffect ==
    [][\A i \in Slots :
          (/\ HandlerRuns(i, Validated)
           /\ HostOfId(reqs'[i].id) # HostOfActor(reqs'[i].actor))
          => /\ pc'[i] = "done" /\ db' = db /\ published' = published
             /\ resp'[i] =
                   IF \/ reqs'[i].kind \in {"Like", "Announce"} /\ reqs'[i].actor \in stopped
                      \/ reqs'[i].kind = "Announce" /\ ~reqs'[i].pub
                   THEN "Ok" ELSE "BadRequest"
      ]_vars

\* C4, the case: a Create whose object.id is on another host than its actor
\* was answered with BadRequest.
C4_Witness ==
    \E i \in Slots :
        /\ reqs[i].kind = "Create" /\ reqs[i].sig /\ reqs[i].actor \in Actors
        /\ reqs[i].id \in NoteIds
        /\ HostOfId(reqs[i].id) # HostOfActor(reqs[i].actor)
        /\ ~Note(reqs[i].id).prox
        /\ resp[i] = "BadRequest" /\ pc[i] = "done"

\* C5: every key of the binding store is on the host of the actor whose proxy
\* key signed the event it is bound to, and that event was sent.
C5_BoundBySigner ==
    \A k \in DOMAIN db :
        /\ db[k].a \in Actors
        /\ HostOfId(k) = HostOfActor(db[k].a)
        /\ \E j \in 1..Len(published) : IdOf(published[j]) = db[k]

\* C5, the case: a note bound by its translation and an activity bound by a
\* reaction or a repost.
C5_Witness ==
    \E k, l \in DOMAIN db :
        /\ db[k].k = "note" /\ k \in NoteIds
        /\ db[l].k \in {"reaction", "repost"} /\ l \in ActIds

\* C6: the processing of a Create of a note without Public addressing sends no
\* event and stores no binding, whatever the note replies to or quotes, and
\* the Create is answered with success.
C6_PrivateNoEffect ==
    [][\A i \in Slots :
          /\ (HandlerRuns(i, {"Create"}) /\ ~Note(reqs'[i].id).pub
              /\ ~Note(reqs'[i].id).prox
              /\ InternalApIdGet(reqs'[i].id, reqs'[i].actor))
             => resp'[i] = "Ok"
          /\ (reqs[i].kind = "Create" /\ reqs[i].id \in NoteIds
              /\ ~Note(reqs[i].id).pub /\ Stepped(i))
             => (db' = db /\ published' = published)
      ]_vars

\* C7: a note that declares proxiedFrom is never translated: a Create of it is
\* answered with BadRequest and starts no task, no call of get_event_from_note
\* is made for it, it is never bound and no event is made from it; a
\* resolution of its URL that succeeds gives the original NET-N event.
C7_ProxiedNeverTranslated ==
    \A n \in {m \in NoteIds : Note(m).prox} :
        /\ n \notin DOMAIN db
        /\ SentFor(n) = {}
        /\ \A i \in Slots :
              /\ (reqs[i].kind = "Create" /\ reqs[i].id = n)
                 => (resp[i] = "BadRequest" /\ pc[i] = "done")
              /\ \A j \in 1..Len(stack[i]) :
                    stack[i][j].fn = "note" => stack[i][j].n # n
              /\ (reqs[i].kind = "Announce" /\ reqs[i].obj = n /\ loc[i].ret.ok)
                 => loc[i].ret.ev = NativeEvent

\* C7, the case: an Announce of a note that declares proxiedFrom was resolved
\* to the original event and the repost of that event was sent.
C7_Witness ==
    \E i \in Slots :
        /\ reqs[i].kind = "Announce" /\ reqs[i].obj \in NoteIds
        /\ Note(reqs[i].obj).prox
        /\ pc[i] = "done" /\ loc[i].ret = Ok(NativeEvent)
        /\ \E j \in 1..Len(published) :
              /\ published[j].k = "repost" /\ published[j].s = reqs[i].id
              /\ published[j].ref = NativeEvent

\* C8: no event is published under the proxy key of an actor of the opt-out set.
C8_NoEventOfStopped ==
    \A j \in 1..Len(published) : published[j].a \notin stopped

\* The result the resolution of slot i ended with is one the claim names.
Results ==
    {"none", "CyclicRefernce", "TooLongThread", "CouldNotGetObjectFromAp",
     "CouldNotGetEventFromNostr", "IsPrivate", "OptOutedAccount", "InvalidActorId"}

\* The call on top of the stack of slot i has a trail without a URL twice and
\* of at most ThreadCap + 1 URLs; a call of get_event_from_note made by
\* get_event_from_object_id has a trail one URL longer than its caller's, a
\* call of get_event_from_object_id has the trail of its caller.  The frames
\* below the top do not change, so this holds of every frame.
TrailsGrow(i) ==
    stack[i] # <<>> =>
        LET n == Len(stack[i])
            t == stack[i][n]
        IN  /\ Len(t.vis) <= ThreadCap + 1
            /\ Cardinality({t.vis[x] : x \in 1..Len(t.vis)}) = Len(t.vis)
            /\ (n > 1 /\ t.fn = "obj") => t.vis = stack[i][n - 1].vis
            /\ (n > 1 /\ t.fn = "note") => Len(t.vis) = Len(stack[i][n - 1].vis) + 1

\* C9: get_event_from_object_id terminates on every note graph, cyclic and
\* long ones too: the request that called it is done in the end, with an
\* event or with one of the errors, and every recursive translation runs with
\* a strictly longer visited trail.
C9_Terminates ==
    /\ <>(pc[1] = "done")
    /\ [][TrailsGrow(1)']_vars
    /\ []((pc[1] \in {"done", "repost"} /\ reqs[1].kind \in {"Create", "Announce"}
           /\ loc[1].ret # NoRet)
          => (loc[1].ret.err \in Results /\ (loc[1].ret.ok <=> loc[1].ret.err = "none")))

\* C9, the case: the resolution of a note that quotes a note replying to it
\* came back from the cycle guard.
C9_Witness ==
    /\ depth = 0
    /\ loc[1].ret.err = "CyclicRefernce"
    /\ Len(stack[1]) >= 2

\* The resolution of slot i ran to its end in a reply chain.
ChainDone(i) ==
    /\ depth > 0
    /\ pc[i] = "done"
    /\ \/ reqs[i].kind = "Create" /\ reqs[i].id = 1
       \/ reqs[i].kind = "Announce" /\ reqs[i].obj = 1
    /\ loc[i].ret # NoRet

\* C10, as claimed: a note with a chain of 101 ancestors that are not bridged
\* is not translated.
C10_FailsAt101 ==
    (ChainDone(1) /\ depth = ThreadCap + 1) => ~loc[1].ret.ok

\* The longest chain of ancestors that is resolved: the note of a Create is
\* translated with an empty trail, the object of an Announce is the first URL
\* of its trail.
Deepest(kind) == IF kind = "Create" THEN ThreadCap + 1 ELSE ThreadCap

\* C10, amended: a note resolved by its URL (the object of an Announce) is
\* translated when its chain of ancestors has depth 100 or less and fails
\* with TooLongThread, nothing published, at depth 101; the note of a Create
\* is translated up to depth 101 and fails so at depth 102.  Below the limit
\* the only failures are those of a fetch or of the author's opt-out.
C10_DepthLimit ==
    ChainDone(1) =>
        IF depth <= Deepest(reqs[1].kind)
        THEN loc[1].ret.err \in {"none", "CouldNotGetObjectFromAp", "OptOutedAccount"}
        ELSE /\ loc[1].ret.err \in {"TooLongThread", "CouldNotGetObjectFromAp"}
             /\ published = <<>>
             /\ db = <<>>

\* C10, the case: the Create of a note with 102 ancestors failed with
\* TooLongThread and nothing was sent.
C10_Witness ==
    /\ ChainDone(1)
    /\ reqs[1].kind = "Create"
    /\ depth = ThreadCap + 2
    /\ loc[1].ret.err = "TooLongThread"
    /\ published = <<>>

\* The contact lists sent under the key of actor a, as positions of published.
ContactLists(a) ==
    {j \in 1..Len(published) : published[j].k = "contacts" /\ published[j].a = a}

\* Request i is a Follow or an Undo(Follow) of a pubkey, of one of the kinds.
FollowReq(i, kinds) == reqs[i].kind \in kinds /\ reqs[i].who \in Pubkeys

\* C11: every Follow and every Undo(Follow) of a pubkey leads to a contact
\* list under the follower's key (the followed set below 500 keys, an empty
\* list at or above): when the request is done, such a list was sent.
C11_ContactListSent ==
    \A i \in Slots :
        (FollowReq(i, {"Follow", "UndoFollow"}) /\ pc[i] = "done")
        => ContactLists(reqs[i].actor) # {}

\* The step of slot i is the one that takes the tags of the contact list.
TakesTags(i) == pc[i] \in {"rev", "urev"} /\ pc'[i] # pc[i]

\* The step of slot i is the one that sends the contact list.
SendsList(i) == pc[i] = "send" /\ pc'[i] # pc[i]

\* C12: every contact list sent is empty or lists at most 500 pubkeys, all
\* of the follower's set in the reverse map when the list was taken under its
\* lock; a Follow that takes the set above 500 keys sends an empty list.
C12_ContactListBounded ==
    [][\A i \in Slots :
          /\ TakesTags(i)
             => /\ loc'[i].tags \subseteq rev'[reqs[i].actor]
                /\ (pc[i] = "rev"
                    /\ Cardinality(rev'[reqs[i].actor]) > CONTACT_LIST_LEN_LIMIT)
                   => (loc'[i].tags = {} /\ pc'[i] = "send")
          /\ SendsList(i)
             => /\ Len(published') = Len(published) + 1
                /\ published'[Len(published')].k = "contacts"
                /\ published'[Len(published')].a = reqs[i].actor
                /\ published'[Len(published')].ps = loc[i].tags
          /\ \A j \in ContactLists(reqs[i].actor)' :
                Cardinality(published'[j].ps) <= CONTACT_LIST_LEN_LIMIT
      ]_vars

\* C12, the case: a1 followed 500 keys, followed p1 as well, and the contact
\* list sent for it is empty.
C12_Witness ==
    \E i \in Slots :
        /\ FollowReq(i, {"Follow"}) /\ reqs[i].actor = "a1" /\ pc[i] = "done"
        /\ Cardinality(rev["a1"]) = CONTACT_LIST_LEN_LIMIT + 1
        /\ Len(published) = 1
        /\ published[1].k = "contacts" /\ published[1].ps = {}

\* Every handler and every task has run to its end.
AllDone == \A i \in Slots : pc[i] \in {"idle", "done"}

\* C13: once all handlers and tasks have finished, nostr_accounts.json holds
\* the forward map.
C13_FileIsForwardMap == AllDone => file = fwd

\* C14: the step that completes an Undo(Follow) of p by a, no other request
\* being under way, leaves a out of followers_of[p] and p out of
\* following_by[a], and no key with an empty set of followers in the forward
\* map.
C14_UndoRemoves ==
    [][\A i \in Slots :
          (/\ FollowReq(i, {"UndoFollow"})
           /\ pc[i] = "urev" /\ pc'[i] # "urev"
           /\ \A j \in Slots \ {i} : reqs[j] = NoReq)
          => /\ reqs[i].who \in DOMAIN fwd' => reqs[i].actor \notin fwd'[reqs[i].who]
             /\ reqs[i].actor \in DOMAIN rev' => reqs[i].who \notin rev'[reqs[i].actor]
             /\ \A p \in DOMAIN fwd' : fwd'[p] # {}
      ]_vars

\* The Accept posted for the Follow of slot i.
AcceptOf(i) == [to |-> reqs[i].actor, followed |-> reqs[i].who]

UndoLikeRuns(i) == pc[i] = "undolike" /\ pc'[i] # pc[i]

\* C15: the task of an Undo(Like L) by actor A on event E either sends
\* nothing or sends, under A's key, the deletion of a reaction that was sent
\* before under A's key, on E, labelled with L; when no such reaction was
\* sent it sends nothing.  The handler starts the task only when the liked
\* note was found and L is on A's host.
C15_UndoLikeDeletes ==
    [][\A i \in Slots :
          /\ UndoLikeRuns(i)
             => \/ published' = published
                \/ /\ Len(published') = Len(published) + 1
                   /\ published'[Len(published')].k = "deletion"
                   /\ published'[Len(published')].a = reqs[i].actor
                   /\ published'[Len(published')].s = reqs[i].undo
                   /\ \E j \in 1..Len(published) :
                         /\ published[j].k = "reaction"
                         /\ published[j].a = reqs[i].actor
                         /\ published[j].s = reqs[i].id
                         /\ published[j].ref = NativeEvent
                         /\ published'[Len(published')].ref = IdOf(published[j])
          /\ (UndoLikeRuns(i)
              /\ ~\E j \in 1..Len(published) :
                    /\ published[j].k = "reaction"
                    /\ published[j].a = reqs[i].actor
                    /\ published[j].s = reqs[i].id)
             => published' = published
          /\ (reqs[i] = NoReq /\ pc'[i] = "undolike")
             => (reqs'[i].kind = "UndoLike" /\ reqs'[i].obj = LocalNoteUrl
                 /\ InternalApIdGet(reqs'[i].id, reqs'[i].actor))
      ]_vars

\* C15, the case: the reaction of a Like was sent and, after it, the deletion
\* that refers to it, for the Undo of that Like by the same actor.
C15_Witness ==
    \E i \in Slots, j, k \in 1..Len(published) :
        /\ reqs[i].kind = "UndoLike" /\ pc[i] = "done"
        /\ j < k
        /\ published[j].k = "reaction" /\ published[j].s = reqs[i].id
        /\ published[j].a = reqs[i].actor
        /\ published[k].k = "deletion" /\ published[k].a = reqs[i].actor
        /\ published[k].ref = IdOf(published[j])

\* C17: a request of a resolved actor whose HTTP signature does not verify is
\* answered with AuthFailed.
C17_AuthFailed ==
    \A i \in Slots :
        (/\ reqs[i].kind \in Kinds
         /\ reqs[i].actor \in Actors
         /\ ~reqs[i].sig
         /\ pc[i] = "done")
        => resp[i] = "AuthFailed"

\* C19: a request that got past the validation and the dedup check has its
\* answer: whatever work is left for it runs while the response is out.
C19_ReplyBeforeWork ==
    \A i \in Slots : reqs[i] # NoReq => resp[i] # "none"

C20_NoLockAcrossAwait ==
    [][\A i \in Slots :
          /\ held'[i] = {}
          /\ (pc[i] = "snap" /\ pc'[i] = "write") => loc'[i].snap = fwd
          /\ (pc[i] = "write" /\ pc'[i] = "done")
             => (held[i] = {} /\ file' = loc[i].snap)
      ]_vars

\* C20, the case: a request is between the serialization and the write of
\* the snapshot while another request updates the forward map.
C20_Witness ==
    \E i, j \in Slots :
        /\ i # j
        /\ pc[i] = "write" /\ loc[i].snap # fwd
        /\ pc[j] \in {"accept", "urev"}
        /\ held[i] = {} /\ held[j] = {}

\* A task of main has terminated: it returned Ok or Err.
Terminated(t) == main.tasks[t] \in {"ok", "err"}

\* C21, as claimed: once one of the three tasks has terminated, with an error
\* or normally, the other two run no longer and the process has ended.
C21_AnyTerminationEnds ==
    (\E t \in Tasks : Terminated(t))
    => (main.at \in {"panicked", "exited"} /\ \A u \in Tasks : main.tasks[u] # "run")

\* C21, the case: the listener returned normally, then the subscription
\* consumer failed and the watchdog, still pending, was dropped with the join.
C21_Witness ==
    /\ main.at = "panicked"
    /\ main.tasks = [listen |-> "ok", watch |-> "err", watchdog |-> "dropped"]

\* C21, amended: the three tasks run together; the termination of any one of
\* them with an error drops the tasks still pending and ends the process (the
\* unwrap panics); a task that returns normally cancels nothing: the others
\* keep running and the process goes on.
C21_ErrorEnds ==
    /\ main.at = "join" => \A t \in Tasks : main.tasks[t] \in {"run", "ok"}
    /\ (\E t \in Tasks : main.tasks[t] = "err")
       => (main.at = "panicked" /\ \A u \in Tasks : main.tasks[u] # "run")
    /\ ((\E t \in Tasks : main.tasks[t] = "ok") /\ (\A t \in Tasks : main.tasks[t] # "err"))
       => (main.at = "join" /\ main.tasks["watchdog"] = "run")

\* No request has been served yet.
NothingServed == \A i \in Slots : reqs[i] = NoReq

\* C22: no request is served before main has loaded the follow graph, and when
\* the first request is served the forward map is the content of
\* nostr_accounts.json (empty when there is no file), and the reverse map is
\* its mirror: a is a follower of p in the one exactly when p is followed by a
\* in the other.
C22_LoadedMirror ==
    /\ main.at \in {"assert", "load", "refused"} => (NothingServed /\ fwd = <<>> /\ rev = <<>>)
    /\ (main.at = "join" /\ NothingServed)
       => /\ fwd = (IF file = NoFile THEN <<>> ELSE file)
          /\ \A a \in Actors, p \in DOMAIN fwd :
                a \in fwd[p] <=> (a \in DOMAIN rev /\ p \in rev[a])
          /\ \A a \in DOMAIN rev : a \in Actors /\ \A p \in rev[a] : p \in DOMAIN fwd

\* C22, the case: main loaded a snapshot in which a1 follows two keys and one
\* key has two followers, and serves no request yet.
C22_Witness ==
    /\ main.at = "join" /\ NothingServed
    /\ DOMAIN fwd = {"p1", "1"}
    /\ fwd["p1"] = {"a1", "a2"}
    /\ rev = [a1 |-> {"p1", "1"}, a2 |-> {"p1"}]

\* C23: once the assertion has run, main has gone on exactly for the secrets
\* of at least 10 bytes; for a shorter one it was refused, with no follow map
\* loaded.
C23_TenBytesStart ==
    main.at # "assert"
    => IF main.key >= 10
       THEN main.at # "refused"
       ELSE main.at = "refused" /\ fwd = <<>> /\ rev = <<>>

\* Positions a < b <= e of content c such that c[1..a] is white space,
\* c[a+1..b] is a run of mentions with one space between neighbours, not
\* followed by a space and a further mention, and c[b+1..e] is all the white
\* space that follows the run.
HeadRun(c, a, b, e) ==
    /\ \A j \in 1..a : c[j] \in {"sp", "nl"}
    /\ \A j \in (a + 1)..b :
          IF (j - a) % 2 = 1 THEN c[j] \in {"bare", "link"} ELSE c[j] = "sp"
    /\ (b - a) % 2 = 1
    /\ ~(b + 2 <= Len(c) /\ c[b + 1] = "sp" /\ c[b + 2] \in {"bare", "link"})
    /\ \A j \in (b + 1)..e : c[j] \in {"sp", "nl"}
    /\ e < Len(c) => c[e + 1] \notin {"sp", "nl"}

\* C24: the text of a note that is no reply is its content; the text of a
\* reply is its content without the leading run of bare or linked mentions
\* separated by single spaces and without the white space around the run, and
\* is the whole content when the content does not start (after white space)
\* with a mention.  A mention after a line break is outside the run: it stays.
C24_HeadMentionsStripped ==
    tr.at = "done" =>
        LET c == tr.content
            n == Len(tr.content) IN
        IF tr.parent = NoParent THEN tr.text = c
        ELSE IF \E a \in 0..n, b \in 1..n, e \in 1..n : a < b /\ b <= e /\ HeadRun(c, a, b, e)
        THEN \A a \in 0..n, b \in 1..n, e \in 1..n :
                (a < b /\ b <= e /\ HeadRun(c, a, b, e)) => tr.text = SubSeq(c, e + 1, n)
        ELSE tr.text = c

\* C24, the case: a reply that starts with a linked and a bare mention, then a
\* line break and one more mention, keeps that last mention only.
C24_Witness ==
    /\ tr.at = "done"
    /\ tr.parent # NoParent
    /\ tr.content = <<"link", "sp", "bare", "nl", "link">>
    /\ tr.text = <<"link">>

\* The e tags among the tags made.
ETags == {t \in tr.tags : t[1] = "e"}

\* The tags of the parent, as a set.
TagsOfParent == {tr.parent.tags[j] : j \in 1..Len(tr.parent.tags)}

\* The parent has an e tag marked root.
ParentHasRoot == \E t \in TagsOfParent : t[1] = "e" /\ t[3] = "root"

\* C30, as claimed: a reply whose parent P was resolved carries every p tag of
\* P, a p tag for P's author, and exactly two e tags: one marked root (the
\* event of P's root-marked e tag if P has one, otherwise P) and one marked
\* reply that references P.
C30_TwoETags ==
    (tr.at # "tags" /\ tr.parent # NoParent) =>
        /\ \A t \in TagsOfParent : t[1] = "p" => t \in tr.tags
        /\ <<"p", tr.parent.pubkey>> \in tr.tags
        /\ Cardinality(ETags) = 2
        /\ <<"e", tr.parent.id, "reply">> \in ETags
        /\ \E t \in ETags :
              /\ t[3] = "root"
              /\ IF ParentHasRoot THEN <<"e", t[2], "root">> \in TagsOfParent
                 ELSE t[2] = tr.parent.id

\* C30, amended: such a reply carries every p tag of P and a p tag for P's
\* author; when P has an e tag marked root it carries exactly two e tags, one
\* marked root for the event of the last such tag of P and one marked reply
\* that references P; when P has none it carries exactly one e tag, marked
\* root, that references P.
C30_ReplyTags ==
    (tr.at # "tags" /\ tr.parent # NoParent) =>
        /\ \A t \in TagsOfParent : t[1] = "p" => t \in tr.tags
        /\ <<"p", tr.parent.pubkey>> \in tr.tags
        /\ IF ParentHasRoot
           THEN \E j \in 1..Len(tr.parent.tags) :
                   /\ tr.parent.tags[j][1] = "e" /\ tr.parent.tags[j][3] = "root"
                   /\ \A k \in (j + 1)..Len(tr.parent.tags) :
                         ~(tr.parent.tags[k][1] = "e" /\ tr.parent.tags[k][3] = "root")
                   /\ ETags = {<<"e", tr.parent.tags[j][2], "root">>,
                               <<"e", tr.parent.id, "reply">>}
           ELSE ETags = {<<"e", tr.parent.id, "root">>}

\* C30, the case: the parent carries a p tag and an e tag marked root, and the
\* reply took its tags from it.
C30_Witness ==
    /\ tr.at = "done"
    /\ tr.parent.tags = <<<<"p", "k1">>, <<"e", "r1", "root">>>>
    /\ tr.tags = {<<"p", "k1">>, <<"p", "k0">>, <<"e", "r1", "root">>, <<"e", "par", "reply">>}

\* C25: once every handler and every spawned task of the Follow and
\* Undo(Follow) requests served has completed, the forward and the reverse
\* follow map are mirrors of each other.
C25_MirrorAtRest ==
    (AllDone /\ \E i \in Slots : FollowReq(i, {"Follow", "UndoFollow"}))
    => /\ \A p \in DOMAIN fwd : \A a \in fwd[p] : a \in DOMAIN rev /\ p \in rev[a]
       /\ \A a \in DOMAIN rev : \A p \in rev[a] : p \in DOMAIN fwd /\ a \in fwd[p]

\* C29: once the Follow and Undo(Follow) requests served have completed, the
\* contact list sent last under an actor's key lists the set the reverse map
\* holds for that actor, when that set is below the cap.
C29_LastListCurrent ==
    AllDone =>
        \A a \in Actors :
            (ContactLists(a) # {} /\ Cardinality(RevEntry(rev, a)) < CONTACT_LIST_LEN_LIMIT)
            => published[Latest(ContactLists(a))].ps = RevEntry(rev, a)

\* C26: the deletion a Delete(Note) triggers is that of an event made for a
\* note of the actor that sent the Delete and signed by that actor's proxy key.
C26_DeleteOwnOnly ==
    \A i \in Slots :
        (reqs[i].kind = "Delete" /\ pc[i] = "delete")
        => /\ loc[i].ret.ev.a = reqs[i].actor
           /\ Note(reqs[i].id).attr = reqs[i].actor

\* Request r was rejected for its signature or for its proxied actor.
Rejected(r) == r # NoReq /\ r.kind # "DeleteUser" /\ (~r.sig \/ r.actor = BridgeUser)

\* C27: the handling of an activity whose HTTP signature does not verify, or
\* whose actor resolves to a proxied actor, answers BadRequest, starts no task
\* and leaves the follow maps, the binding store, the snapshot file, the
\* events sent and the activities posted as they were.
C27_RejectedNoEffect ==
    [][\A i \in Slots :
          (reqs[i] = NoReq /\ Rejected(reqs'[i]))
          => /\ resp'[i] = "BadRequest" /\ pc'[i] = "done"
             /\ fwd' = fwd /\ rev' = rev /\ db' = db /\ file' = file
             /\ published' = published /\ outbox' = outbox
      ]_vars

\* C27, the case: a Follow with a signature that does not verify was rejected,
\* after another request had bound an id and sent an event.
C27_Witness ==
    \E i \in Slots :
        /\ reqs[i].kind = "Follow" /\ ~reqs[i].sig /\ reqs[i].actor \in Actors
        /\ resp[i] = "BadRequest" /\ pc[i] = "done"
        /\ db # <<>> /\ published # <<>>

\* C28: a step leaves every id that is bound, and stays bound, bound to the
\* same NET-N event id.
C28_BindingKept ==
    [][\A k \in DOMAIN db \cap DOMAIN db' : db'[k] = db[k]]_vars

\* The content-warning tags among the tags made.
WarningTags == {t \in tr.tags : t[1] = "content-warning"}

\* C31: the text note carries a content-warning tag with the summary as its
\* reason exactly when the summary is non-empty; with the summary absent or
\* empty it carries a content-warning tag without a reason exactly when
\* sensitive is true; otherwise it carries no content-warning tag.
C31_ContentWarning ==
    tr.at \in {"content", "done"} =>
        WarningTags =
            IF tr.summary \notin {<<>>, <<"">>}
            THEN {<<"content-warning", "some", tr.summary[1]>>}
            ELSE IF tr.sensitive = <<TRUE>> THEN {<<"content-warning", "none", "">>}
            ELSE {}

====
